---- MODULE Spec2Model ----
(***************************************************************************)
(* A model of internal/server/search.go: the resolution of the target of  *)
(* NEARBY / WITHIN / INTERSECTS / SEARCH commands (cmdSearchArgs,          *)
(* parseRectArea, cmdSeachValuesArgs, multiGlobParse) and the command      *)
(* handlers that drive the index traversal (cmdNearby,                     *)
(* cmdWITHINorINTERSECTS, cmdSearch).                                      *)
(*                                                                         *)
(* Tokens are strings.  Numbers are read from tokens through the tables    *)
(* ParseFloatTable / Atoi     , keyword comparison goes through ToLower.   *)
(* Latitudes and longitudes are integers in micro-degrees, distances are   *)
(* integers in meters.  Errors are records [e, arg]; NoErr is Go's nil.    *)
(***************************************************************************)
EXTENDS Integers, Sequences, FiniteSets, TLC

(***************************************************************************)
(* Bounds of the model.                                                    *)
(***************************************************************************)
\* the largest number of objects a collection holds
MaxObjs == 3
\* the largest number of expression evaluators (WHEREEVAL) of a descriptor
MaxEvals == 1
\* width, in bits, of the machine word standing for Go's 64-bit int/uint64
WordBits == 4

\* search.go:23
defaultCircleSteps == 64

(***************************************************************************)
(* Errors.                                                                 *)
(***************************************************************************)
Err(e, arg) == [e |-> e, arg |-> arg]
NoErr == Err("nil", "")
errInvalidNumberOfArguments == Err("invalid number of arguments", "")
errInvalidArgument(arg) == Err("invalid argument", arg)
errNotRectangle == Err("not a rectangle", "")
errKeyNotFound == Err("key not found", "")
errIDNotFound == Err("id not found", "")
errEqualBearings == Err("equal bearings, use CIRCLE instead", "")
errSparseNoDistance == Err("cannot use SPARSE without a point distance", "")
\* liveFenceSwitches.Error() returns the goingLive text
goingLive == "going live"

(***************************************************************************)
(* Tokens and conversions.                                                 *)
(***************************************************************************)
\* strings.ToLower on the words of the model's token alphabet; a token
\* outside the table has no upper-case letter and is returned unchanged
LowerTable ==
    "POINT" :> "point" @@ "Point" :> "point" @@ "CIRCLE" :> "circle" @@
    "OBJECT" :> "object" @@ "SECTOR" :> "sector" @@ "BOUNDS" :> "bounds" @@
    "HASH" :> "hash" @@ "TILE" :> "tile" @@ "MVT" :> "mvt" @@
    "QUADKEY" :> "quadkey" @@ "GET" :> "get" @@ "ROAM" :> "roam" @@
    "GEO" :> "geo" @@ "CLIPBY" :> "clipby" @@ "ClipBy" :> "clipby" @@
    "SCAN" :> "scan" @@ "JUNK" :> "junk"

ToLower(s) == IF s \in DOMAIN LowerTable THEN LowerTable[s] ELSE s

\* strconv.ParseFloat(s, 64) on the numeric tokens of the alphabet: the
\* value, or an error for every other token
ParseFloatTable ==
    "0" :> 0 @@ "1" :> 1 @@ "2" :> 2 @@ "3" :> 3 @@ "5" :> 5 @@
    "24" :> 24 @@ "90" :> 90 @@ "500" :> 500 @@ "-1" :> -1 @@ "-5" :> -5

ParseFloat(s) ==
    IF s \in DOMAIN ParseFloatTable
    THEN [v |-> ParseFloatTable[s], err |-> FALSE]
    ELSE [v |-> 0, err |-> TRUE]

\* strconv.Atoi(s)
Atoi(s) == ParseFloat(s)

\* tokenval (token.go): the first token and the rest, ok = FALSE on an
\* empty list
tokenval(vs) ==
    IF Len(vs) > 0
    THEN [vs |-> Tail(vs), tok |-> Head(vs), ok |-> TRUE]
    ELSE [vs |-> <<>>, tok |-> "", ok |-> FALSE]

\* n successive `if vs, s, ok = tokenval(vs); !ok || s == ""` reads succeed
HasTokens(vs, n) ==
    /\ Len(vs) >= n
    /\ \A i \in 1..n : vs[i] # ""

Drop(vs, n) == SubSeq(vs, n + 1, Len(vs))

\* the first of the tokens vs[1..n] that ParseFloat rejects, 0 if none
RECURSIVE FirstBad(_, _, _)
FirstBad(vs, i, n) ==
    IF i > n THEN 0
    ELSE IF ParseFloat(vs[i]).err THEN i
    ELSE FirstBad(vs, i + 1, n)

(***************************************************************************)
(* Geometry.  geojson objects are records tagged by type; NilObj is a nil  *)
(* geojson.Object.  Coordinates are micro-degrees.                         *)
(***************************************************************************)
NilObj == [type |-> "nil"]
Deg(v) == v * 1000000
NewPoint(lat, lon) == [type |-> "point", lat |-> lat, lon |-> lon]
NewCircle(lat, lon, meters, steps) ==
    [type |-> "circle", lat |-> lat, lon |-> lon, meters |-> meters,
     steps |-> steps]
NewRect(minX, minY, maxX, maxY) ==
    [type |-> "rect", minX |-> minX, minY |-> minY, maxX |-> maxX,
     maxY |-> maxY]
\* clip.Clip(obj, rect, opts)
Clip(obj, clipRect) == [type |-> "clipped", of |-> obj, by |-> clipRect]
\* buffer.Simple(obj, meters)
BufferSimple(obj, meters) == [type |-> "buffered", of |-> obj, by |-> meters]
\* geojson.Parse of an OBJECT literal: the token "{}" is a well-formed
\* literal, every other token a parse error
GeoParse(s) ==
    IF s = "{}" THEN [obj |-> [type |-> "object", json |-> s], err |-> NoErr]
    ELSE [obj |-> NilObj, err |-> Err("invalid geojson", s)]
\* sectr.NewSector(origin, meters, b1, b2) parsed back as a geojson object
NewSector(lat, lon, meters, b1, b2) ==
    [type |-> "sector", lat |-> lat, lon |-> lon, meters |-> meters,
     b1 |-> b1, b2 |-> b2]

\* bing.MinLatitude .. bing.MaxLongitude, in micro-degrees
MaxLatitude == 85051129
MinLatitude == -85051129
MaxLongitude == 180000000
MinLongitude == -180000000

\* the latitude of the k-th horizontal line of the tile grid of zoom z,
\* counted from the north, by the Mercator formula of bing.TileXYToBounds;
\* lines k > 2^z belong to rows below the grid.  The outermost lines lie
\* just inside bing.MaxLatitude (85.0511287798 < 85.05112878).  The commands
\* of the model use zooms 0 to 2; a deeper zoom reads the zoom-2 table, and
\* a line beyond the table is taken at the pole.
GridLat(k, z) ==
    LET tab == IF z = 0 THEN <<85051100, -85051100, -89990753, -89999983>>
               ELSE IF z = 1
               THEN <<85051100, 0, -85051100, -89786007, -89990753>>
               ELSE <<85051100, 66513260, 0, -66513260, -85051100,
                      -88970618, -89786007>>
    IN  IF k + 1 <= Len(tab) THEN tab[k + 1] ELSE -90000000

\* the longitude of the k-th vertical line of the tile grid of zoom z,
\* counted from the west; lines k > 2^z belong to columns east of the grid
GridLon(k, z) == k * (360000000 \div (2 ^ z)) - 180000000

\* bing.TileXYToBounds
TileXYToBounds(x, y, z) ==
    [minLat |-> GridLat(y + 1, z), minLon |-> GridLon(x, z),
     maxLat |-> GridLat(y, z), maxLon |-> GridLon(x + 1, z)]

\* geohash.BoundingBox: never fails
HashBox(hash) ==
    IF hash = "s"
    THEN [minLat |-> 0, minLon |-> 0, maxLat |-> 45000000, maxLon |-> 45000000]
    ELSE [minLat |-> -90000000, minLon |-> -180000000,
          maxLat |-> -45000000, maxLon |-> -135000000]

\* bing.QuadKeyToBounds: the quadkey "0" is the north-west tile of zoom 1,
\* every other token is malformed
QuadKeyToBounds(key) ==
    IF key = "0"
    THEN [minLat |-> 0, minLon |-> -180000000, maxLat |-> 85051100,
          maxLon |-> 0, err |-> FALSE]
    ELSE [minLat |-> 0, minLon |-> 0, maxLat |-> 0, maxLon |-> 0, err |-> TRUE]

\* the result of parseRectArea
RectResult(nvs, grect, x, y, z, err) ==
    [nvs |-> nvs, grect |-> grect, tileX |-> x, tileY |-> y, tileZ |-> z,
     err |-> err]
RectFail(err) == RectResult(<<>>, NilObj, 0, 0, 0, err)

\* search.go:175-194: the mvt rectangle, each edge updated in turn from the
\* rectangle as the earlier statements left it, then clamped
ExpandMVT(minX, minY, maxX, maxY) ==
    LET minY1 == minY - ((maxY - minY) \div 10)
        maxY1 == maxY + ((maxY - minY1) \div 10)
        minX1 == minX - ((maxX - minX) \div 10)
        maxX1 == maxX + ((maxX - minX1) \div 10)
    IN  NewRect(IF minX1 < MinLongitude THEN MinLongitude ELSE minX1,
                IF minY1 < MinLatitude THEN MinLatitude ELSE minY1,
                IF maxX1 > MaxLongitude THEN MaxLongitude ELSE maxX1,
                IF maxY1 > MaxLatitude THEN MaxLatitude ELSE maxY1)

\* search.go:61-197
parseRectArea(ltyp, vs) ==
    CASE ltyp = "bounds" ->
            IF ~HasTokens(vs, 4) THEN RectFail(errInvalidNumberOfArguments)
            ELSE IF FirstBad(vs, 1, 4) # 0
            THEN RectFail(errInvalidArgument(vs[FirstBad(vs, 1, 4)]))
            ELSE RectResult(Drop(vs, 4),
                     NewRect(Deg(ParseFloat(vs[2]).v), Deg(ParseFloat(vs[1]).v),
                             Deg(ParseFloat(vs[4]).v), Deg(ParseFloat(vs[3]).v)),
                     0, 0, 0, NoErr)
      [] ltyp = "hash" ->
            IF ~HasTokens(vs, 1) THEN RectFail(errInvalidNumberOfArguments)
            ELSE LET box == HashBox(vs[1])
                 IN  RectResult(Drop(vs, 1),
                         NewRect(box.minLon, box.minLat, box.maxLon, box.maxLat),
                         0, 0, 0, NoErr)
      [] ltyp = "quadkey" ->
            IF ~HasTokens(vs, 1) THEN RectFail(errInvalidNumberOfArguments)
            ELSE LET b == QuadKeyToBounds(vs[1])
                 IN  IF b.err THEN RectFail(errInvalidArgument(vs[1]))
                     ELSE RectResult(Drop(vs, 1),
                              NewRect(b.minLon, b.minLat, b.maxLon, b.maxLat),
                              0, 0, 0, NoErr)
      [] ltyp \in {"tile", "mvt"} ->
            IF ~HasTokens(vs, 3) THEN RectFail(errInvalidNumberOfArguments)
            ELSE LET x == Atoi(vs[1])
                     y == Atoi(vs[2])
                     z == Atoi(vs[3])
                 IN  IF x.err \/ x.v < 0 THEN RectFail(errInvalidArgument(vs[1]))
                     ELSE IF y.err \/ y.v < 0
                     THEN RectFail(errInvalidArgument(vs[2]))
                     ELSE IF z.err \/ z.v < 0 \/ z.v > 23
                     THEN RectFail(errInvalidArgument(vs[3]))
                     ELSE LET b == TileXYToBounds(x.v, y.v, z.v)
                          IN  RectResult(Drop(vs, 3),
                                  IF ltyp = "mvt"
                                  THEN ExpandMVT(b.minLon, b.minLat,
                                                 b.maxLon, b.maxLat)
                                  ELSE NewRect(b.minLon, b.minLat,
                                               b.maxLon, b.maxLat),
                                  x.v, y.v, z.v, NoErr)
      [] OTHER -> RectFail(errNotRectangle)

(***************************************************************************)
(* The descriptor.                                                         *)
(***************************************************************************)
\* roamSwitches{} (search.go:32-39)
NoRoam ==
    [on |-> FALSE, key |-> "", id |-> "", pattern |-> FALSE, meters |-> 0,
     scan |-> ""]

\* the zero searchScanBaseTokens; the tile coordinates of a descriptor that
\* is not a tile query are the -1 sentinel
ZeroTokens ==
    [key |-> "", fence |-> FALSE, clip |-> FALSE, hasbuffer |-> FALSE,
     buffer |-> 0, sparse |-> 0, distance |-> FALSE, output |-> "objects",
     cursor |-> 0, desc |-> FALSE, wheres |-> 0, whereins |-> 0,
     whereevals |-> <<>>, globs |-> <<>>, mvt |-> FALSE,
     tileX |-> -1, tileY |-> -1, tileZ |-> -1]

\* liveFenceSwitches (search.go:25-30): the base tokens, embedded, and the
\* target
MakeLfs(t) == [t |-> t, obj |-> NilObj, cmd |-> "", roam |-> NoRoam]
ZeroLfs == MakeLfs(ZeroTokens)

\* search.go:57-59
usingLua(lfs) == Len(lfs.t.whereevals) > 0

\* search.go:492-499
nearbyTypes == {"point"}
withinOrIntersectsTypes ==
    {"geo", "bounds", "hash", "tile", "quadkey", "get", "object", "circle",
     "point", "sector", "mvt"}

\* glob.IsGlob on the ids of the alphabet
IsGlob(s) == s \in {"truck*", "*"}

\* parseSearchScanBaseTokens: the base tokens of the message as the token
\* parser leaves them (base.err is its error), fence kept from the caller
parseSearchScanBaseTokens(cmd, t, base) ==
    IF base.err # NoErr THEN [t |-> t, err |-> base.err]
    ELSE [t |-> [base.t EXCEPT !.fence = base.t.fence \/ t.fence],
          err |-> NoErr]

\* Collection.Get(id): the object of that id, or none
ColGet(col, id) ==
    IF \E i \in 1..Len(col) : col[i].id = id
    THEN LET i == CHOOSE i \in 1..Len(col) : col[i].id = id
         IN  [found |-> TRUE, geo |-> [type |-> "stored", id |-> col[i].id]]
    ELSE [found |-> FALSE, geo |-> NilObj]

\* what a case of the kind switch of cmdSearchArgs hands on: the descriptor,
\* the remaining tokens, the error and whether the function has returned
Kind(lfs, vs, err, ret) == [lfs |-> lfs, vs |-> vs, err |-> err, ret |-> ret]
KindFail(lfs, err) == Kind(lfs, <<>>, err, TRUE)

\* search.go:238-273
KindPoint(cmd, lfs, vs) ==
    IF ~HasTokens(vs, 2) THEN KindFail(lfs, errInvalidNumberOfArguments)
    ELSE IF FirstBad(vs, 1, 2) # 0
    THEN KindFail(lfs, errInvalidArgument(vs[FirstBad(vs, 1, 2)]))
    ELSE LET lat == Deg(ParseFloat(vs[1]).v)
             lon == Deg(ParseFloat(vs[2]).v)
             r == tokenval(Drop(vs, 2))
         IN  IF cmd = "nearby" THEN
                 IF r.ok /\ r.tok # "" THEN
                     IF ParseFloat(r.tok).err \/ ParseFloat(r.tok).v < 0
                     THEN KindFail(lfs, errInvalidArgument(r.tok))
                     ELSE Kind([lfs EXCEPT !.obj =
                                   NewCircle(lat, lon, ParseFloat(r.tok).v,
                                             defaultCircleSteps)],
                               r.vs, NoErr, FALSE)
                 ELSE Kind([lfs EXCEPT !.obj =
                               NewCircle(lat, lon, -1, defaultCircleSteps)],
                           r.vs, NoErr, FALSE)
             ELSE Kind([lfs EXCEPT !.obj = NewPoint(lat, lon)],
                       Drop(vs, 2), NoErr, FALSE)

\* search.go:274-306
KindCircle(lfs, vs) ==
    IF lfs.t.clip THEN KindFail(lfs, errInvalidArgument("cannot clip with circle"))
    ELSE IF ~HasTokens(vs, 2) THEN KindFail(lfs, errInvalidNumberOfArguments)
    ELSE IF FirstBad(vs, 1, 2) # 0
    THEN KindFail(lfs, errInvalidArgument(vs[FirstBad(vs, 1, 2)]))
    ELSE IF ~HasTokens(vs, 3) THEN KindFail(lfs, errInvalidNumberOfArguments)
    ELSE IF ParseFloat(vs[3]).err \/ ParseFloat(vs[3]).v < 0
    THEN KindFail(lfs, errInvalidArgument(vs[3]))
    ELSE Kind([lfs EXCEPT !.obj =
                  NewCircle(Deg(ParseFloat(vs[1]).v), Deg(ParseFloat(vs[2]).v),
                            ParseFloat(vs[3]).v, defaultCircleSteps)],
              Drop(vs, 3), NoErr, FALSE)

\* a variant of KindObject without the test of the clip request
KindObjectAnyClip(lfs, vs) ==
    IF ~HasTokens(vs, 1) THEN KindFail(lfs, errInvalidNumberOfArguments)
    ELSE LET p == GeoParse(vs[1])
         IN  IF p.err # NoErr THEN KindFail([lfs EXCEPT !.obj = p.obj], p.err)
             ELSE Kind([lfs EXCEPT !.obj = p.obj], Drop(vs, 1), NoErr, FALSE)

\* search.go:307-320
KindObject(lfs, vs) ==
    IF lfs.t.clip THEN KindFail(lfs, errInvalidArgument("cannot clip with object"))
    ELSE IF ~HasTokens(vs, 1) THEN KindFail(lfs, errInvalidNumberOfArguments)
    ELSE LET p == GeoParse(vs[1])
         IN  IF p.err # NoErr THEN KindFail([lfs EXCEPT !.obj = p.obj], p.err)
             ELSE Kind([lfs EXCEPT !.obj = p.obj], Drop(vs, 1), NoErr, FALSE)

\* search.go:321-380
KindSector(lfs, vs) ==
    IF lfs.t.clip THEN KindFail(lfs, errInvalidArgument("cannot clip with sector"))
    ELSE IF ~HasTokens(vs, 5) THEN KindFail(lfs, errInvalidNumberOfArguments)
    ELSE IF FirstBad(vs, 1, 5) # 0
    THEN KindFail(lfs, errInvalidArgument(vs[FirstBad(vs, 1, 5)]))
    ELSE IF ParseFloat(vs[4]).v = ParseFloat(vs[5]).v
    THEN KindFail(lfs, errEqualBearings)
    ELSE Kind([lfs EXCEPT !.obj =
                  NewSector(Deg(ParseFloat(vs[1]).v), Deg(ParseFloat(vs[2]).v),
                            ParseFloat(vs[3]).v, ParseFloat(vs[4]).v,
                            ParseFloat(vs[5]).v)],
              Drop(vs, 5), NoErr, FALSE)

\* search.go:382-389: the descriptor after parseRectArea returned r
KindRectDone(ltyp, lfs, r) ==
    IF r.err # NoErr
    THEN KindFail([lfs EXCEPT !.obj = r.grect, !.t.tileX = r.tileX,
                              !.t.tileY = r.tileY, !.t.tileZ = r.tileZ],
                  r.err)
    ELSE Kind([lfs EXCEPT !.obj = r.grect, !.t.tileX = r.tileX,
                          !.t.tileY = r.tileY, !.t.tileZ = r.tileZ,
                          !.t.mvt = (ltyp = "mvt") \/ @],
              r.nvs, NoErr, FALSE)

\* search.go:381-389
KindRect(ltyp, lfs, vs) == KindRectDone(ltyp, lfs, parseRectArea(ltyp, vs))

\* search.go:390-413: the clip error is set and the function goes on
KindGet(s, lfs, vs) ==
    LET err0 == IF lfs.t.clip THEN errInvalidArgument("cannot clip with get")
                ELSE NoErr
    IN  IF ~HasTokens(vs, 2) THEN KindFail(lfs, errInvalidNumberOfArguments)
        ELSE IF vs[1] \notin DOMAIN s.cols THEN KindFail(lfs, errKeyNotFound)
        ELSE LET o == ColGet(s.cols[vs[1]], vs[2])
             IN  IF ~o.found THEN KindFail(lfs, errIDNotFound)
                 ELSE Kind([lfs EXCEPT !.obj = o.geo], Drop(vs, 2), err0, FALSE)

\* search.go:414-446
KindRoam(lfs, vs) ==
    LET l0 == [lfs EXCEPT !.roam.on = TRUE]
    IN  IF ~HasTokens(vs, 1)
        THEN KindFail([l0 EXCEPT !.roam.key = IF Len(vs) > 0 THEN vs[1] ELSE ""],
                      errInvalidNumberOfArguments)
        ELSE LET l1 == [l0 EXCEPT !.roam.key = vs[1]]
             IN  IF ~HasTokens(vs, 2)
                 THEN KindFail(l1, errInvalidNumberOfArguments)
                 ELSE LET l2 == [l1 EXCEPT !.roam.id = vs[2],
                                           !.roam.pattern = IsGlob(vs[2])]
                      IN  IF ~HasTokens(vs, 3)
                          THEN KindFail(l2, errInvalidNumberOfArguments)
                          ELSE IF ParseFloat(vs[3]).err
                          THEN KindFail(l2, errInvalidArgument(vs[3]))
                          ELSE LET l3 == [l2 EXCEPT !.roam.meters =
                                                       ParseFloat(vs[3]).v]
                                   sc == tokenval(Drop(vs, 3))
                               IN  IF ~sc.ok THEN Kind(l3, sc.vs, NoErr, FALSE)
                                   ELSE IF ToLower(sc.tok) # "scan"
                                   THEN KindFail(l3, errInvalidArgument(sc.tok))
                                   ELSE IF ~HasTokens(sc.vs, 1)
                                   THEN KindFail(l3, errInvalidNumberOfArguments)
                                   ELSE Kind([l3 EXCEPT !.roam.scan = sc.vs[1]],
                                             Drop(sc.vs, 1), NoErr, FALSE)

\* search.go:237-446: the switch on the kind; a kind with no case leaves the
\* descriptor as it is
KindSwitch(s, cmd, ltyp, lfs, vs) ==
    CASE ltyp = "point" -> KindPoint(cmd, lfs, vs)
      [] ltyp = "circle" -> KindCircle(lfs, vs)
      [] ltyp = "object" -> KindObject(lfs, vs)
      [] ltyp = "sector" -> KindSector(lfs, vs)
      [] ltyp \in {"bounds", "hash", "tile", "mvt", "quadkey"} ->
            KindRect(ltyp, lfs, vs)
      [] ltyp = "get" -> KindGet(s, lfs, vs)
      [] ltyp = "roam" -> KindRoam(lfs, vs)
      [] OTHER -> Kind(lfs, vs, NoErr, FALSE)

\* search.go:448-480: the CLIPBY loop, entered with whatever error the kind
\* switch left pending; ClipApply is the loop body from the assignment of
\* parseRectArea's results on (search.go:466-475)
RECURSIVE ClipLoop(_, _, _)
ClipApply(lfs, ltok, r) ==
    IF r.err = errNotRectangle
    THEN [lfs |-> [lfs EXCEPT !.t.tileX = r.tileX, !.t.tileY = r.tileY,
                              !.t.tileZ = r.tileZ],
          err |-> errInvalidArgument("cannot clipby " \o ltok), ret |-> TRUE]
    ELSE IF r.err # NoErr
    THEN [lfs |-> [lfs EXCEPT !.t.tileX = r.tileX, !.t.tileY = r.tileY,
                              !.t.tileZ = r.tileZ],
          err |-> r.err, ret |-> TRUE]
    ELSE ClipLoop([lfs EXCEPT !.t.tileX = r.tileX, !.t.tileY = r.tileY,
                              !.t.tileZ = r.tileZ,
                              !.obj = Clip(lfs.obj, r.grect)],
                  r.nvs, r.err)

ClipLoop(lfs, vs, err) ==
    IF Len(vs) = 0 THEN [lfs |-> lfs, err |-> err, ret |-> FALSE]
    ELSE IF vs[1] = "" \/ ToLower(vs[1]) # "clipby"
    THEN [lfs |-> lfs, err |-> errInvalidNumberOfArguments, ret |-> TRUE]
    ELSE IF ~HasTokens(vs, 2)
    THEN [lfs |-> lfs, err |-> errInvalidNumberOfArguments, ret |-> TRUE]
    ELSE IF ToLower(vs[2]) \in {"bounds", "hash", "tile", "quadkey"}
    THEN ClipApply(lfs, ToLower(vs[2]),
                   parseRectArea(ToLower(vs[2]), Drop(vs, 2)))
    ELSE [lfs |-> lfs,
          err |-> errInvalidArgument("cannot clipby " \o ToLower(vs[2])),
          ret |-> TRUE]

\* search.go:482-489: the buffer step, after a CLIPBY loop that did not
\* return
applyBuffer(c) ==
    IF c.ret \/ ~c.lfs.t.hasbuffer THEN [lfs |-> c.lfs, err |-> c.err]
    ELSE [lfs |-> [c.lfs EXCEPT !.obj = BufferSimple(c.lfs.obj, c.lfs.t.buffer)],
          err |-> NoErr]

\* search.go:237-489: from the result k of the kind switch on
afterKind(k) ==
    IF k.ret THEN [lfs |-> k.lfs, err |-> k.err]
    ELSE applyBuffer(ClipLoop(k.lfs, k.vs, k.err))

\* a variant of kindFound that lets roam through on a fence of any command
kindFoundAnyFence(cmd, types, lfs, ltyp) ==
    \/ ltyp \in types
    \/ lfs.t.fence /\ ltyp = "roam"

\* search.go:227-236: the kind is accepted if the command recognises it, or
\* it is roam on a NEARBY fence
kindFound(cmd, types, lfs, ltyp) ==
    \/ ltyp \in types
    \/ lfs.t.fence /\ ltyp = "roam" /\ cmd = "nearby"

\* search.go:227-489
resolveKind(s, cmd, types, lfs, typ, vs) ==
    IF ~kindFound(cmd, types, lfs, ToLower(typ))
    THEN [lfs |-> lfs, err |-> errInvalidArgument(typ)]
    ELSE afterKind(KindSwitch(s, cmd, ToLower(typ), lfs, vs))

\* search.go:217-226: an output mode of "bounds" followed by a number is the
\* start of an implicit BOUNDS target
implicitBounds(cmd, t, typ) ==
    /\ t.output = "bounds"
    /\ cmd \in {"within", "intersects"}
    /\ ~ParseFloat(typ).err

\* search.go:207-489: from the result p of parseSearchScanBaseTokens on
afterBase(s, cmd, p, vs, types) ==
    IF p.err # NoErr THEN [lfs |-> ZeroLfs, err |-> p.err]
    ELSE IF ~HasTokens(vs, 1)
    THEN [lfs |-> MakeLfs(p.t), err |-> errInvalidNumberOfArguments]
    ELSE IF implicitBounds(cmd, p.t, vs[1])
    THEN resolveKind(s, cmd, types, MakeLfs([p.t EXCEPT !.output = "objects"]),
                     "BOUNDS", vs)
    ELSE resolveKind(s, cmd, types, MakeLfs(p.t), vs[1], Tail(vs))

\* search.go:199-490
cmdSearchArgs(s, fromFenceCmd, cmd, base, vs, types) ==
    afterBase(s, cmd,
              parseSearchScanBaseTokens(
                  cmd, [ZeroTokens EXCEPT !.fence = fromFenceCmd], base),
              vs, types)

\* search.go:680-688: from the result p of parseSearchScanBaseTokens on
afterSearchBase(p, vs) ==
    IF p.err # NoErr THEN [lfs |-> ZeroLfs, err |-> p.err]
    ELSE IF Len(vs) # 0
    THEN [lfs |-> MakeLfs(p.t), err |-> errInvalidNumberOfArguments]
    ELSE [lfs |-> MakeLfs(p.t), err |-> NoErr]

\* search.go:675-689
cmdSeachValuesArgs(base, vs) ==
    afterSearchBase(parseSearchScanBaseTokens("search", ZeroTokens, base), vs)

(***************************************************************************)
(* The Value-Range Deriver.  Match patterns are sequences of character     *)
(* codes, compared as Go compares strings.                                 *)
(***************************************************************************)
RECURSIVE StrLess(_, _)
StrLess(a, b) ==
    IF Len(b) = 0 THEN FALSE
    ELSE IF Len(a) = 0 THEN TRUE
    ELSE IF a[1] # b[1] THEN a[1] < b[1]
    ELSE StrLess(Tail(a), Tail(b))

\* the index of the first '*' (42) or '?' (63) of the pattern, from i on;
\* 0 if it has none
RECURSIVE FirstWild(_, _)
FirstWild(pattern, i) ==
    IF i > Len(pattern) THEN 0
    ELSE IF pattern[i] \in {42, 63} THEN i
    ELSE FirstWild(pattern, i + 1)

\* glob.Parse(pattern, desc).Limits: the literal prefix and the prefix with
\* its last character incremented, swapped when descending; no limits for
\* a pattern with no literal prefix
GlobParse(pattern, desc) ==
    LET w == FirstWild(pattern, 1)
        prefix == IF w = 0 THEN pattern ELSE SubSeq(pattern, 1, w - 1)
        n == Len(prefix)
        upper == IF w = 0 THEN prefix
                 ELSE [prefix EXCEPT ![n] = prefix[n] + 1]
    IN  IF n = 0 THEN <<<<>>, <<>>>>
        ELSE IF desc THEN <<upper, prefix>>
        ELSE <<prefix, upper>>

\* search.go:693-716: the loop of multiGlobParse from pattern i on
RECURSIVE multiGlobLoop(_, _, _, _)
multiGlobLoop(globs, desc, i, limits) ==
    IF i > Len(globs) THEN limits
    ELSE LET g == GlobParse(globs[i], desc)
         IN  IF g[1] = <<>> /\ g[2] = <<>> THEN <<<<>>, <<>>>>
             ELSE IF i = 1 THEN multiGlobLoop(globs, desc, i + 1, g)
             ELSE IF desc THEN
                 multiGlobLoop(globs, desc, i + 1,
                     <<IF StrLess(limits[1], g[1]) THEN g[1] ELSE limits[1],
                       IF StrLess(g[2], limits[2]) THEN g[2] ELSE limits[2]>>)
             ELSE
                 multiGlobLoop(globs, desc, i + 1,
                     <<IF StrLess(g[1], limits[1]) THEN g[1] ELSE limits[1],
                       IF StrLess(limits[2], g[2]) THEN g[2] ELSE limits[2]>>)

\* a variant of multiGlobParse whose loop goes on to the next pattern after a
\* pattern with no limits instead of leaving the loop
RECURSIVE multiGlobLoopNoBreak(_, _, _, _)
multiGlobLoopNoBreak(globs, desc, i, limits) ==
    IF i > Len(globs) THEN limits
    ELSE LET g == GlobParse(globs[i], desc)
         IN  IF g[1] = <<>> /\ g[2] = <<>>
             THEN multiGlobLoopNoBreak(globs, desc, i + 1, <<<<>>, <<>>>>)
             ELSE IF i = 1 THEN multiGlobLoopNoBreak(globs, desc, i + 1, g)
             ELSE IF desc THEN
                 multiGlobLoopNoBreak(globs, desc, i + 1,
                     <<IF StrLess(limits[1], g[1]) THEN g[1] ELSE limits[1],
                       IF StrLess(g[2], limits[2]) THEN g[2] ELSE limits[2]>>)
             ELSE
                 multiGlobLoopNoBreak(globs, desc, i + 1,
                     <<IF StrLess(g[1], limits[1]) THEN g[1] ELSE limits[1],
                       IF StrLess(limits[2], g[2]) THEN g[2] ELSE limits[2]>>)

multiGlobParseNoBreak(globs, desc) ==
    multiGlobLoopNoBreak(globs, desc, 1, <<<<>>, <<>>>>)

\* search.go:691-718
multiGlobParse(globs, desc) == multiGlobLoop(globs, desc, 1, <<<<>>, <<>>>>)

(***************************************************************************)
(* Machine integers of WordBits bits.                                      *)
(***************************************************************************)
\* int(u) of a uint64 u
ToInt(u) == IF u >= 2 ^ (WordBits - 1) THEN u - 2 ^ WordBits ELSE u
\* the int that a signed operation with the exact result x yields
WrapInt(x) ==
    ((x + 2 ^ (WordBits - 1)) % (2 ^ WordBits)) - 2 ^ (WordBits - 1)
\* uint64(i) of an int i
ToUint(i) == i % (2 ^ WordBits)

\* search.go:752-756: the count of the SEARCH short-circuit
ShortCircuitCount(total, cursor) ==
    LET count == WrapInt(total - ToInt(cursor))
    IN  ToUint(IF count < 0 THEN 0 ELSE count)

(***************************************************************************)
(* The server state and the command handlers.                              *)
(***************************************************************************)
\* the ids of the stored objects, nearest first
ObjIds == <<"truck-1", "truck-2", "truck-3", "truck-4", "truck-5">>

\* a collection of n objects in the order the index delivers them; dist is
\* the distance, in meters, the index reports for the object
Collection(n) == [i \in 1..n |-> [id |-> ObjIds[i], dist |-> (i - 1) * 3]]

\* s.cols: the key "fleet" with its collection, or no collection at all
NoCols == [k \in {} |-> <<>>]
ColsStates == {NoCols, "fleet" :> Collection(MaxObjs)}

\* the whereevals of a descriptor that holds n expression evaluators
Evals(n) == [i \in 1..n |-> i]

\* resp values and handler results
NoRes == [kind |-> "none"]
NOMessage == [kind |-> "NOMessage"]
Panicked == [kind |-> "panic"]
Reply(json, items, count) ==
    [kind |-> "reply", ok |-> json, items |-> items, count |-> count,
     foot |-> TRUE, elapsed |-> json]
\* `return NOMessage, sargs`: the descriptor returned as the error
LiveFence(lfs) == [e |-> goingLive, lfs |-> lfs]
errScanWriter == Err("scan writer", "")
errSink == Err("sink", "")

\* retrerr (server.go): no message, and the error
retrerr(e) == [res |-> NOMessage, err |-> e]

\* newScanWriter (scanner_writer.go): the writer bound to the collection of
\* the key, which may not exist
NoScanWriter ==
    [created |-> FALSE, hasCol |-> FALSE, col |-> <<>>, output |-> "",
     wheres |-> 0, whereins |-> 0, whereevals |-> <<>>, globs |-> <<>>,
     globEverything |-> FALSE, count |-> 0, items |-> <<>>, foot |-> FALSE]
newScanWriter(s, lfs) ==
    [created |-> TRUE,
     hasCol |-> lfs.t.key \in DOMAIN s.cols,
     col |-> IF lfs.t.key \in DOMAIN s.cols THEN s.cols[lfs.t.key] ELSE <<>>,
     output |-> lfs.t.output,
     wheres |-> lfs.t.wheres,
     whereins |-> lfs.t.whereins,
     whereevals |-> lfs.t.whereevals,
     globs |-> lfs.t.globs,
     globEverything |-> \/ Len(lfs.t.globs) = 0
                        \/ \E i \in 1..Len(lfs.t.globs) : lfs.t.globs[i] = <<42>>,
     count |-> 0, items |-> <<>>, foot |-> FALSE]

\* a variant of goesLive that goes live for roam fences only
goesLiveRoamOnly(lfs) == lfs.t.fence /\ lfs.roam.on

\* search.go:520-522, 619-621
goesLive(lfs) == lfs.t.fence

\* a variant of Close that leaves the first evaluator open
CloseSkipFirst(lfs) == {lfs.t.whereevals[i] : i \in 2..Len(lfs.t.whereevals)}

\* search.go:51-55: the evaluators Close is called on
Close(lfs) == {lfs.t.whereevals[i] : i \in 1..Len(lfs.t.whereevals)}

\* a variant of iterStep that hands on keepGoing whatever the error
iterStepKeepGoing(keepGoing, perr) == [ret |-> keepGoing, ierr |-> perr]

\* search.go:536-549 (and the callbacks of 638-645, 649-660, 761-770,
\* 777-786): what the callback returns and the error it records, from what
\* pushObject returned
iterStep(keepGoing, perr) ==
    IF perr # NoErr THEN [ret |-> FALSE, ierr |-> perr]
    ELSE [ret |-> keepGoing, ierr |-> NoErr]

\* a variant of nearbyAccepts that also stops at a candidate at exactly the
\* radius
nearbyAcceptsInside(maxDist, dist) == ~(maxDist > 0 /\ dist >= maxDist)

\* search.go:567-576: whether the nearest-neighbour callback hands the
\* candidate on to iterStep
nearbyAccepts(maxDist, dist) == ~(maxDist > 0 /\ dist > maxDist)

\* search.go:751
searchShortCircuit(w) == w.output = "count" /\ w.wheres = 0 /\ w.globEverything

\* a variant of recoverFault that asserts the fault to be an error value,
\* not a string
recoverFaultAsError(fault) ==
    IF fault = "runtime"
    THEN [res |-> NOMessage, err |-> Err("fault", "")]
    ELSE [res |-> Panicked, err |-> NoErr]

\* search.go:508-514: the deferred recover; a fault that is not a string
\* fails the r.(string) assertion and leaves the handler as a new fault
recoverFault(fault) ==
    IF fault = "string"
    THEN [res |-> NOMessage, err |-> Err("fault", "")]
    ELSE [res |-> Panicked, err |-> NoErr]

VARIABLES
    msg,          \* the command: cmd, base tokens, target tokens, output type
    cols,         \* s.cols
    pc,           \* where the handler is
    sargs,        \* the descriptor cmdSearchArgs returned
    argsErr,      \* the error cmdSearchArgs returned
    res, err,     \* what the handler returns
    deferred,     \* the deferred Close and recover are registered
    closed,       \* the evaluators Close has been called on
    sw,           \* the scan writer
    calls,        \* the index traversals invoked
    log,          \* the callbacks run: candidate, pushObject call, result
    ierr,         \* the error the callback recorded
    idx,          \* the next candidate the index delivers
    deadlineHit,  \* msg.Deadline elapsed during the traversal
    shortCircuit, \* SEARCH took the count short-circuit
    fault         \* the value of a panic in flight

vars == <<msg, cols, pc, sargs, argsErr, res, err, deferred, closed, sw, calls, log,
          ierr, idx, deadlineHit, shortCircuit, fault>>

(***************************************************************************)
(* The commands the model receives.                                        *)
(***************************************************************************)
BaseOk(t) == [t |-> t, err |-> NoErr]
BaseErr == [t |-> ZeroTokens, err |-> Err("base tokens", "")]
FleetTokens == [ZeroTokens EXCEPT !.key = "fleet"]

NearbyBases ==
    {BaseErr} \cup
    {BaseOk([FleetTokens EXCEPT !.fence = f, !.sparse = sp, !.distance = d,
                                !.whereevals = Evals(n)]) :
        f \in BOOLEAN, sp \in {0, 2}, d \in BOOLEAN, n \in 0..MaxEvals}

NearbyArgs ==
    {<<>>,
     <<"POINT", "1">>,
     <<"POINT", "1", "2">>,
     <<"POINT", "1", "2", "">>,
     <<"Point", "1", "2", "0">>,
     <<"POINT", "1", "2", "3">>,
     <<"POINT", "1", "2", "5">>,
     <<"POINT", "1", "2", "-1">>,
     <<"POINT", "1", "2", "JUNK">>,
     <<"POINT", "1", "2", "CLIPBY", "BOUNDS", "0", "0", "1", "1">>,
     <<"POINT", "1", "2", "5", "CLIPBY", "BOUNDS", "0", "0", "1", "1">>,
     <<"CIRCLE", "1", "2", "5">>,
     <<"ROAM", "fleet", "truck-1", "500">>,
     <<"ROAM", "fleet", "truck*", "-5">>,
     <<"ROAM", "fleet", "truck-1", "500", "SCAN", "speed">>,
     <<"ROAM", "fleet", "truck-1", "500", "JUNK">>}

\* the base tokens of WITHIN and INTERSECTS; CLIP goes with INTERSECTS only
SpatialBases ==
    {BaseErr, BaseOk([FleetTokens EXCEPT !.output = "bounds"])} \cup
    {BaseOk([FleetTokens EXCEPT !.fence = f, !.clip = c, !.hasbuffer = b,
                                !.buffer = IF b THEN 5 ELSE 0,
                                !.whereevals = Evals(n)]) :
        f \in BOOLEAN, c \in BOOLEAN, b \in BOOLEAN, n \in 0..MaxEvals}

Targets ==
    {<<"POINT", "1", "2">>,
     <<"CIRCLE", "1", "2", "500">>,
     <<"CIRCLE", "1", "2", "-1">>,
     <<"OBJECT", "{}">>,
     <<"OBJECT", "bad">>,
     <<"SECTOR", "1", "2", "500", "0", "90">>,
     <<"SECTOR", "1", "2", "500", "90", "90">>,
     <<"BOUNDS", "0", "0", "1", "1">>,
     <<"0", "0", "1", "1">>,
     <<"HASH", "s">>,
     <<"QUADKEY", "0">>,
     <<"QUADKEY", "9">>,
     <<"TILE", "1", "1", "1">>,
     <<"TILE", "-1", "0", "1">>,
     <<"TILE", "0", "0", "24">>,
     <<"MVT", "0", "0", "0">>,
     <<"MVT", "1", "0", "1">>,
     <<"MVT", "0", "0", "2">>,
     <<"MVT", "2", "0", "0">>,
     <<"GET", "fleet", "truck-1">>,
     <<"GET", "nokey", "truck-1">>,
     <<"GET", "fleet", "noid">>,
     <<"GEO">>,
     <<"ROAM", "fleet", "truck-1", "500">>,
     <<"JUNK">>}

Tails ==
    {<<>>,
     <<"CLIPBY", "BOUNDS", "0", "0", "1", "1">>,
     <<"ClipBy", "TILE", "1", "0", "1">>,
     <<"CLIPBY", "HASH", "s", "CLIPBY", "BOUNDS", "0", "0", "2", "2">>,
     <<"CLIPBY", "MVT", "0", "0", "0">>,
     <<"CLIPBY", "BOUNDS", "0", "0", "1">>,
     <<"JUNK">>}

SpatialArgs == {<<>>} \cup {t \o c : t \in Targets, c \in Tails}

\* match patterns: "*", "a*", "ab*", "b*", "abc"
GlobSets ==
    {<<>>, <<<<42>>>>, <<<<97, 42>>>>, <<<<97, 98, 42>>, <<98, 42>>>>,
     <<<<97, 42>>, <<42>>>>, <<<<97, 98, 99>>>>,
     <<<<98, 42>>, <<97, 98, 42>>>>,
     <<<<42>>, <<97, 42>>>>,
     <<<<97, 98, 42>>, <<42>>, <<98, 42>>>>,
     <<<<97, 98, 99>>, <<97, 42>>, <<98, 42>>>>,
     <<<<98, 42>>, <<97, 42>>, <<97, 98, 99>>>>}

SearchBases ==
    {BaseErr} \cup
    {BaseOk([FleetTokens EXCEPT !.output = "count", !.cursor = cu,
                                !.wheres = w, !.whereins = wi,
                                !.whereevals = Evals(n), !.globs = g]) :
        cu \in 0..(2 ^ WordBits - 1), w \in {0, 1}, wi \in {0, 1},
        n \in 0..MaxEvals, g \in {<<>>, <<<<97, 42>>>>}} \cup
    {BaseOk([FleetTokens EXCEPT !.desc = d, !.whereevals = Evals(n),
                                !.globs = g]) :
        d \in BOOLEAN, n \in 0..MaxEvals, g \in GlobSets}

Msgs ==
    {[cmd |-> "nearby", base |-> b, args |-> a, json |-> j] :
        b \in NearbyBases, a \in NearbyArgs, j \in BOOLEAN} \cup
    {[cmd |-> "intersects", base |-> b, args |-> a, json |-> j] :
        b \in SpatialBases, a \in SpatialArgs, j \in BOOLEAN} \cup
    {[cmd |-> "within", base |-> b, args |-> a, json |-> j] :
        b \in {x \in SpatialBases : ~x.t.clip}, a \in SpatialArgs,
        j \in BOOLEAN} \cup
    {[cmd |-> "search", base |-> b, args |-> a, json |-> j] :
        b \in SearchBases, a \in {<<>>, <<"JUNK">>}, j \in BOOLEAN}

Init ==
    /\ msg \in Msgs
    /\ cols \in ColsStates
    /\ pc = "start"
    /\ sargs = ZeroLfs
    /\ argsErr = NoErr
    /\ res = NoRes
    /\ err = NoErr
    /\ deferred = FALSE
    /\ closed = {}
    /\ sw = NoScanWriter
    /\ calls = <<>>
    /\ log = <<>>
    /\ ierr = NoErr
    /\ idx = 1
    /\ deadlineHit = FALSE
    /\ shortCircuit = FALSE
    /\ fault = "none"

\* search.go:506-522, 605-621, 725-737: with r the result of the resolution,
\* the deferred calls, the error return and the live-fence return
afterArgs(r) ==
    /\ deferred' = usingLua(r.lfs)
    /\ argsErr' = r.err
    /\ IF r.err # NoErr
       THEN /\ sargs' = r.lfs
            /\ res' = NOMessage
            /\ err' = r.err
            /\ pc' = "return"
       ELSE IF msg.cmd # "search" /\ goesLive(r.lfs)
       THEN /\ sargs' = [r.lfs EXCEPT !.cmd = msg.cmd]
            /\ res' = NOMessage
            /\ err' = LiveFence([r.lfs EXCEPT !.cmd = msg.cmd])
            /\ pc' = "return"
       ELSE /\ sargs' = IF msg.cmd = "search" THEN r.lfs
                        ELSE [r.lfs EXCEPT !.cmd = msg.cmd]
            /\ pc' = "newsw"
            /\ UNCHANGED <<res, err>>

\* search.go:501-522, 599-621, 720-737: the handler resolves its arguments
Resolve ==
    /\ pc = "start"
    /\ afterArgs(IF msg.cmd = "search"
                 THEN cmdSeachValuesArgs(msg.base, msg.args)
                 ELSE cmdSearchArgs([cols |-> cols], FALSE, msg.cmd, msg.base,
                                    msg.args,
                                    IF msg.cmd = "nearby" THEN nearbyTypes
                                    ELSE withinOrIntersectsTypes))
    /\ UNCHANGED <<msg, cols, closed, sw, calls, log, ierr, idx, deadlineHit,
                   shortCircuit, fault>>

\* search.go:523-533, 622-632, 738-748: the scan writer is created, fails,
\* or an evaluator of the descriptor raises a fault
NewScanWriter ==
    /\ pc = "newsw"
    /\ \E outcome \in {"ok", "error"} \cup
                      (IF usingLua(sargs) THEN {"fault"} ELSE {}) :
          CASE outcome = "ok" ->
                  /\ sw' = newScanWriter([cols |-> cols], sargs)
                  /\ pc' = "exec"
                  /\ UNCHANGED <<res, err, fault>>
            [] outcome = "error" ->
                  /\ res' = NOMessage
                  /\ err' = errScanWriter
                  /\ pc' = "return"
                  /\ UNCHANGED <<sw, fault>>
            [] outcome = "fault" ->
                  /\ fault' = "string"
                  /\ pc' = "panic"
                  /\ UNCHANGED <<sw, res, err>>
    /\ UNCHANGED <<msg, cols, sargs, argsErr, deferred, closed, calls, log, ierr, idx,
                   deadlineHit, shortCircuit>>

\* an index traversal call
Call(op, obj, sparse, desc, limits) ==
    [op |-> op, obj |-> obj, sparse |-> sparse, desc |-> desc,
     limits |-> limits]
NoLimits == <<<<>>, <<>>>>

\* search.go:534-578, 633-663, 749-790: the traversal is chosen and called,
\* or the handler goes on without one
Dispatch ==
    /\ pc = "exec"
    /\ IF ~sw.hasCol THEN
           /\ pc' = "after"
           /\ UNCHANGED <<res, err, sw, calls, shortCircuit, fault>>
       ELSE CASE msg.cmd = "nearby" ->
               IF sargs.obj.type # "circle" THEN
                   \* sargs.obj.(*geojson.Circle) fails
                   /\ fault' = "runtime"
                   /\ pc' = "panic"
                   /\ UNCHANGED <<res, err, sw, calls, shortCircuit>>
               ELSE IF sargs.t.sparse > 0 THEN
                   IF sargs.obj.meters < 0 THEN
                       /\ res' = NOMessage
                       /\ err' = errSparseNoDistance
                       /\ pc' = "return"
                       /\ UNCHANGED <<sw, calls, shortCircuit, fault>>
                   ELSE
                       /\ calls' = Append(calls,
                              Call("Intersects", sargs.obj, sargs.t.sparse,
                                   FALSE, NoLimits))
                       /\ pc' = "traverse"
                       /\ UNCHANGED <<res, err, sw, shortCircuit, fault>>
               ELSE
                   /\ calls' = Append(calls,
                          Call("Nearby", sargs.obj, 0, FALSE, NoLimits))
                   /\ pc' = "traverse"
                   /\ UNCHANGED <<res, err, sw, shortCircuit, fault>>
         [] msg.cmd \in {"within", "intersects"} ->
               /\ calls' = Append(calls,
                      Call(IF msg.cmd = "within" THEN "Within" ELSE "Intersects",
                           sargs.obj, sargs.t.sparse, FALSE, NoLimits))
               /\ pc' = "traverse"
               /\ UNCHANGED <<res, err, sw, shortCircuit, fault>>
         [] msg.cmd = "search" ->
               IF searchShortCircuit(sw) THEN
                   /\ sw' = [sw EXCEPT !.count =
                                ShortCircuitCount(Len(sw.col), sargs.t.cursor)]
                   /\ shortCircuit' = TRUE
                   /\ pc' = "after"
                   /\ UNCHANGED <<res, err, calls, fault>>
               ELSE
                   LET limits == multiGlobParse(sw.globs, sargs.t.desc)
                   IN  /\ calls' = Append(calls,
                              IF limits = NoLimits
                              THEN Call("SearchValues", NilObj, 0,
                                        sargs.t.desc, NoLimits)
                              ELSE Call("SearchValuesRange", NilObj, 0,
                                        sargs.t.desc, limits))
                       /\ pc' = "traverse"
                       /\ UNCHANGED <<res, err, sw, shortCircuit, fault>>
    /\ UNCHANGED <<msg, cols, sargs, argsErr, deferred, closed, log, ierr, idx,
                   deadlineHit>>

\* what sw.pushObject may do with a candidate: return (keepGoing, err), or
\* let a fault of an expression evaluator through
PushOutcomes(lfs) ==
    {[keepGoing |-> k, err |-> e, fault |-> FALSE] :
        k \in BOOLEAN, e \in {NoErr, errSink}} \cup
    (IF usingLua(lfs)
     THEN {[keepGoing |-> FALSE, err |-> NoErr, fault |-> TRUE]}
     ELSE {})

\* the ScanWriterParams of the callbacks (search.go:537-543, 639, 650-653,
\* 762-764, 778-780)
Params(op, cmd, lfs, o) ==
    [obj |-> o.id,
     dist |-> IF cmd = "nearby" /\ lfs.t.distance THEN o.dist ELSE 0,
     distOutput |-> cmd = "nearby" /\ lfs.t.distance,
     ignoreGlobMatch |-> cmd = "nearby",
     skipTesting |-> cmd = "nearby",
     clip |-> IF op = "Intersects" /\ cmd = "intersects" /\ lfs.t.clip
              THEN lfs.obj ELSE NilObj]
NoParams ==
    [obj |-> "", dist |-> 0, distOutput |-> FALSE, ignoreGlobMatch |-> FALSE,
     skipTesting |-> FALSE, clip |-> NilObj]

LogEntry(id, pushed, params, out, ret) ==
    [id |-> id, pushed |-> pushed, params |-> params, out |-> out, ret |-> ret]
NoOutcome == [keepGoing |-> FALSE, err |-> NoErr, fault |-> FALSE]

\* the index delivers its next candidate to the callback of the traversal
\* (search.go:536-576, 638-645, 649-660, 761-770, 777-786) and goes on while
\* the callback returns true
Deliver ==
    /\ pc = "traverse"
    /\ ~deadlineHit
    /\ idx <= Len(sw.col)
    /\ LET o == sw.col[idx]
           op == calls[Len(calls)].op
       IN  IF op = "Nearby" /\ ~nearbyAccepts(sargs.obj.meters, o.dist) THEN
               /\ log' = Append(log,
                      LogEntry(o.id, FALSE, NoParams, NoOutcome, FALSE))
               /\ pc' = "after"
               /\ UNCHANGED <<sw, ierr, idx, fault>>
           ELSE \E out \in PushOutcomes(sargs) :
               LET p == Params(op, msg.cmd, sargs, o)
                   cb == iterStep(out.keepGoing, out.err)
               IN  IF out.fault THEN
                       /\ log' = Append(log, LogEntry(o.id, TRUE, p, out, FALSE))
                       /\ fault' = "string"
                       /\ pc' = "panic"
                       /\ UNCHANGED <<sw, ierr, idx>>
                   ELSE
                       /\ log' = Append(log, LogEntry(o.id, TRUE, p, out, cb.ret))
                       /\ ierr' = IF cb.ierr # NoErr THEN cb.ierr ELSE ierr
                       /\ sw' = IF out.err = NoErr
                                THEN [sw EXCEPT !.items = Append(@, p)]
                                ELSE sw
                       /\ idx' = idx + 1
                       /\ pc' = IF cb.ret THEN "traverse" ELSE "after"
                       /\ UNCHANGED fault
    /\ UNCHANGED <<msg, cols, sargs, argsErr, res, err, deferred, closed, calls,
                   deadlineHit, shortCircuit>>

\* msg.Deadline elapses while the traversal runs
DeadlineElapses ==
    /\ pc = "traverse"
    /\ ~deadlineHit
    /\ deadlineHit' = TRUE
    /\ UNCHANGED <<msg, cols, pc, sargs, argsErr, res, err, deferred, closed, sw, calls,
                   log, ierr, idx, shortCircuit, fault>>

\* the traversal call returns: no candidate is left, or the index found the
\* deadline elapsed and returns early
IndexReturns ==
    /\ pc = "traverse"
    /\ idx > Len(sw.col) \/ deadlineHit
    /\ pc' = "after"
    /\ UNCHANGED <<msg, cols, sargs, argsErr, res, err, deferred, closed, sw, calls,
                   log, ierr, idx, deadlineHit, shortCircuit, fault>>

\* search.go:580-588, 664-672, 791-799
Finish ==
    /\ pc = "after"
    /\ IF ierr # NoErr
       THEN /\ res' = retrerr(ierr).res
            /\ err' = retrerr(ierr).err
            /\ UNCHANGED sw
       ELSE /\ sw' = [sw EXCEPT !.foot = TRUE]
            /\ res' = Reply(msg.json, sw.items, sw.count)
            /\ err' = NoErr
    /\ pc' = "return"
    /\ UNCHANGED <<msg, cols, sargs, argsErr, deferred, closed, calls, log, ierr, idx,
                   deadlineHit, shortCircuit, fault>>

\* the handler returns or unwinds: the deferred recover (search.go:508-514)
\* and then the deferred Close (search.go:507) run if they were registered
RunDeferred ==
    /\ pc \in {"return", "panic"}
    /\ IF pc = "panic"
       THEN IF deferred
            THEN /\ res' = recoverFault(fault).res
                 /\ err' = recoverFault(fault).err
            ELSE /\ res' = Panicked
                 /\ err' = NoErr
       ELSE UNCHANGED <<res, err>>
    /\ closed' = IF deferred THEN closed \cup Close(sargs) ELSE closed
    /\ pc' = "done"
    /\ UNCHANGED <<msg, cols, sargs, argsErr, deferred, sw, calls, log, ierr, idx,
                   deadlineHit, shortCircuit, fault>>

Next ==
    \/ Resolve
    \/ NewScanWriter
    \/ Dispatch
    \/ Deliver
    \/ DeadlineElapses
    \/ IndexReturns
    \/ Finish
    \/ RunDeferred

Spec == Init /\ [][Next]_vars

(***************************************************************************)
(* Properties.                                                             *)
(***************************************************************************)
Spatial == {"nearby", "within", "intersects"}
Returned == pc \in {"return", "done"}
Max(a, b) == IF a > b THEN a ELSE b

\* C1: for NEARBY, WITHIN and INTERSECTS, once resolution has succeeded with
\* a descriptor marked as a fence request, the handler returns the live-fence
\* signal carrying the descriptor with its command name set, and has created
\* no scan writer, invoked no traversal and pushed no candidate; once
\* resolution has failed it returns the resolution error, never the
\* live-fence signal.
C1_FenceGoesLive ==
    (pc # "start" /\ msg.cmd \in Spatial) =>
        /\ (argsErr = NoErr /\ sargs.t.fence) =>
              /\ Returned
              /\ res = NOMessage
              /\ err = LiveFence(sargs)
              /\ sargs.cmd = msg.cmd
              /\ ~sw.created
              /\ calls = <<>>
              /\ log = <<>>
        /\ argsErr # NoErr =>
              /\ Returned
              /\ res = NOMessage
              /\ err = argsErr
              /\ err.e # goingLive

\* a WITHIN fence request over a rectangle has gone live
C1_Witness ==
    /\ pc = "done"
    /\ msg.cmd = "within"
    /\ argsErr = NoErr
    /\ sargs.t.fence
    /\ sargs.obj.type = "rect"
    /\ err = LiveFence(sargs)

\* C2: in every traversal mode, a candidate for which the sink's push
\* reported an error is the last one delivered, its callback returned false,
\* and the command returns that error and no message; a candidate for which
\* the sink reported stop without an error is the last one delivered, its
\* callback returned false, and the command completes as a success with the
\* footer written.
C2_SinkStops ==
    \A i \in 1..Len(log) :
        (log[i].pushed /\ ~log[i].out.fault) =>
            /\ log[i].out.err # NoErr =>
                  /\ ~log[i].ret
                  /\ i = Len(log)
                  /\ pc # "traverse"
                  /\ ierr = log[i].out.err
                  /\ Returned => (res = NOMessage /\ err = log[i].out.err)
            /\ (log[i].out.err = NoErr /\ ~log[i].out.keepGoing) =>
                  /\ ~log[i].ret
                  /\ i = Len(log)
                  /\ pc # "traverse"
                  /\ Returned =>
                        (res.kind = "reply" /\ res.foot /\ err = NoErr)

\* a range scan of SEARCH ended by a sink error on its second candidate
C2_Witness ==
    /\ pc = "done"
    /\ Len(calls) = 1
    /\ calls[1].op = "SearchValuesRange"
    /\ Len(log) = 2
    /\ log[2].out.err = errSink
    /\ res = NOMessage
    /\ err = errSink

\* C3: when a handler whose base tokens were parsed has returned, Close has
\* been called on every expression evaluator the descriptor holds, whatever
\* the exit path.
C3_EvaluatorsReleased ==
    (pc = "done" /\ msg.base.err = NoErr) =>
        \A i \in 1..Len(msg.base.t.whereevals) :
            msg.base.t.whereevals[i] \in closed

\* a handler left through a recovered evaluator fault, its evaluators closed
C3_Witness ==
    /\ pc = "done"
    /\ fault = "string"
    /\ Len(log) > 0
    /\ Len(sargs.t.whereevals) > 0
    /\ closed = Close(sargs)
    /\ res = NOMessage

\* C4: if the deadline elapsed while the traversal was running, the command
\* ends with an error and never with a success reply.
C4_DeadlineIsError ==
    (pc = "done" /\ deadlineHit) => (res.kind # "reply" /\ err # NoErr)

\* C5: a non-fence NEARBY, WITHIN or INTERSECTS command that passed
\* resolution without error has a target geometry.
C5_TargetPresent ==
    (pc = "newsw" /\ msg.cmd \in Spatial) => sargs.obj # NilObj

\* C6: with a clip request in the base tokens, resolving a target of kind
\* circle, object, sector or get ends in an error, whatever follows.
C6_ClipKindsFail ==
    (/\ pc # "start"
     /\ msg.cmd \in {"within", "intersects"}
     /\ msg.base.err = NoErr
     /\ msg.base.t.clip
     /\ Len(msg.args) > 0
     /\ ToLower(msg.args[1]) \in {"circle", "object", "sector", "get"})
        => argsErr # NoErr

\* the geometry a chain of CLIPBY clauses was applied to
RECURSIVE BaseTarget(_)
BaseTarget(obj) == IF obj.type = "clipped" THEN BaseTarget(obj.of) ELSE obj

\* C7: for NEARBY with a POINT target, no radius token after lat and lon (the
\* tokens end, or a CLIPBY clause follows) gives a circle of radius -1; a
\* radius token r >= 0 gives radius r; a negative or non-numeric radius token
\* is an invalid-argument error.  For WITHIN and INTERSECTS the POINT target
\* is a plain point.
C7_PointRadius ==
    (/\ pc # "start"
     /\ msg.base.err = NoErr
     /\ Len(msg.args) >= 3
     /\ ToLower(msg.args[1]) = "point"
     /\ FirstBad(msg.args, 2, 3) = 0) =>
        IF msg.cmd = "nearby" THEN
            IF Len(msg.args) = 3 THEN
                argsErr = NoErr /\ sargs.obj = NewCircle(
                    Deg(ParseFloat(msg.args[2]).v),
                    Deg(ParseFloat(msg.args[3]).v), -1, defaultCircleSteps)
            ELSE IF ToLower(msg.args[4]) = "clipby" THEN
                /\ argsErr # errInvalidArgument(msg.args[4])
                /\ argsErr = NoErr => BaseTarget(sargs.obj).meters = -1
            ELSE IF msg.args[4] = "" THEN TRUE
            ELSE IF ParseFloat(msg.args[4]).err \/ ParseFloat(msg.args[4]).v < 0
            THEN argsErr = errInvalidArgument(msg.args[4])
            ELSE argsErr = NoErr =>
                    BaseTarget(sargs.obj).meters = ParseFloat(msg.args[4]).v
        ELSE (Len(msg.args) = 3 /\ msg.cmd \in {"within", "intersects"}
              /\ ~msg.base.t.hasbuffer) =>
                (argsErr = NoErr /\ sargs.obj = NewPoint(
                    Deg(ParseFloat(msg.args[2]).v),
                    Deg(ParseFloat(msg.args[3]).v)))

\* C8: a non-fence NEARBY with SPARSE and the radius -1 ends with the error
\* "cannot use SPARSE without a point distance" and no traversal, whatever
\* the collection; with SPARSE and a radius >= 0 the only traversal is the
\* intersects one.
C8_SparseNeedsDistance ==
    (/\ msg.cmd = "nearby"
     /\ sw.created
     /\ sargs.t.sparse > 0
     /\ sargs.obj.type = "circle") =>
        IF sargs.obj.meters < 0
        THEN /\ calls = <<>>
             /\ (pc = "done" /\ fault = "none") => err = errSparseNoDistance
        ELSE \A i \in 1..Len(calls) : calls[i].op = "Intersects"

\* C9: SEARCH takes the count short-circuit only when the output is a count,
\* no where, where-in or expression-evaluator condition is active and the
\* match pattern is unrestricted; otherwise, on an existing collection, it
\* runs a range scan when multiGlobParse gives limits and a full scan when
\* it gives none, in the requested direction.
C9_ShortCircuitUnfiltered ==
    (msg.cmd = "search" /\ sw.created /\ sw.hasCol
     /\ pc \in {"traverse", "after", "return", "done"}) =>
        IF /\ sargs.t.output = "count"
           /\ sargs.t.wheres = 0
           /\ sargs.t.whereins = 0
           /\ Len(sargs.t.whereevals) = 0
           /\ sw.globEverything
        THEN shortCircuit /\ calls = <<>>
        ELSE /\ ~shortCircuit
             /\ Len(calls) = 1
             /\ calls[1].desc = sargs.t.desc
             /\ calls[1].limits = multiGlobParse(sargs.t.globs, sargs.t.desc)
             /\ calls[1].op = IF calls[1].limits = NoLimits
                              THEN "SearchValues" ELSE "SearchValuesRange"

\* C10: the count of the SEARCH short-circuit is max(totalCount - cursor, 0)
\* for every cursor, and no traversal is called.
C10_CountFloor ==
    shortCircuit =>
        /\ sw.count = Max(Len(sw.col) - sargs.t.cursor, 0)
        /\ calls = <<>>

\* the rectangle kinds of parseRectArea
RectKinds == {"bounds", "hash", "tile", "mvt", "quadkey"}

\* the rectangle the well-formed tokens vs of a rectangle kind denote, before
\* any expansion
RectOf(ltyp, vs) ==
    CASE ltyp = "bounds" ->
            NewRect(Deg(ParseFloat(vs[2]).v), Deg(ParseFloat(vs[1]).v),
                    Deg(ParseFloat(vs[4]).v), Deg(ParseFloat(vs[3]).v))
      [] ltyp = "hash" ->
            NewRect(HashBox(vs[1]).minLon, HashBox(vs[1]).minLat,
                    HashBox(vs[1]).maxLon, HashBox(vs[1]).maxLat)
      [] ltyp = "quadkey" ->
            NewRect(QuadKeyToBounds(vs[1]).minLon, QuadKeyToBounds(vs[1]).minLat,
                    QuadKeyToBounds(vs[1]).maxLon, QuadKeyToBounds(vs[1]).maxLat)
      [] OTHER ->
            LET b == TileXYToBounds(Atoi(vs[1]).v, Atoi(vs[2]).v, Atoi(vs[3]).v)
            IN  NewRect(b.minLon, b.minLat, b.maxLon, b.maxLat)

ClampTo(v, lo, hi) == IF v < lo THEN lo ELSE IF v > hi THEN hi ELSE v

\* r moved outward by a tenth of its own extent on every edge, then clamped
Expand10(r) ==
    NewRect(ClampTo(r.minX - ((r.maxX - r.minX) \div 10),
                    MinLongitude, MaxLongitude),
            ClampTo(r.minY - ((r.maxY - r.minY) \div 10),
                    MinLatitude, MaxLatitude),
            ClampTo(r.maxX + ((r.maxX - r.minX) \div 10),
                    MinLongitude, MaxLongitude),
            ClampTo(r.maxY + ((r.maxY - r.minY) \div 10),
                    MinLatitude, MaxLatitude))

\* C11: the rectangle resolved for the mvt kind is the tile rectangle moved
\* outward by 10% of the tile's own height at both latitude edges and 10% of
\* its own width at both longitude edges, then clamped; for bounds, hash,
\* tile and quadkey it is the rectangle of the tokens, unchanged.
C11_MvtExpansion ==
    (/\ pc # "start"
     /\ msg.cmd \in {"within", "intersects"}
     /\ argsErr = NoErr
     /\ ~sargs.t.hasbuffer
     /\ Len(msg.args) > 0
     /\ ToLower(msg.args[1]) \in RectKinds) =>
        BaseTarget(sargs.obj) =
            IF ToLower(msg.args[1]) = "mvt"
            THEN Expand10(RectOf("mvt", Tail(msg.args)))
            ELSE RectOf(ToLower(msg.args[1]), Tail(msg.args))

\* the k-th limits of the patterns
GlobLimitsAt(globs, desc, k) ==
    {GlobParse(globs[i], desc)[k] : i \in 1..Len(globs)}
LeastStr(S) == CHOOSE s \in S : \A u \in S : ~StrLess(u, s)
GreatestStr(S) == CHOOSE s \in S : \A u \in S : ~StrLess(s, u)
Unbounded(globs, desc) ==
    \E i \in 1..Len(globs) : GlobParse(globs[i], desc) = <<<<>>, <<>>>>

\* the limits of a set of patterns, whatever their order
CombinedLimits(globs, desc) ==
    IF Unbounded(globs, desc) THEN <<<<>>, <<>>>>
    ELSE IF desc
    THEN <<GreatestStr(GlobLimitsAt(globs, desc, 1)),
           LeastStr(GlobLimitsAt(globs, desc, 2))>>
    ELSE <<LeastStr(GlobLimitsAt(globs, desc, 1)),
           GreatestStr(GlobLimitsAt(globs, desc, 2))>>

\* C12: the limits SEARCH scans with are the empty pair (and the scan is a
\* full scan) if any of the match patterns has no limits, wherever it stands
\* in the list; otherwise they are (least low, greatest high) ascending and
\* (greatest low, least high) descending, whatever the order of the patterns.
C12_GlobLimits ==
    (msg.cmd = "search" /\ Len(calls) = 1 /\ Len(sargs.t.globs) > 0) =>
        /\ calls[1].limits = CombinedLimits(sargs.t.globs, sargs.t.desc)
        /\ Unbounded(sargs.t.globs, sargs.t.desc) =>
              calls[1].op = "SearchValues"

\* a descending SEARCH over three patterns with limits, the widest first
C12_Witness ==
    /\ pc = "done"
    /\ msg.cmd = "search"
    /\ sargs.t.desc
    /\ sargs.t.globs = <<<<98, 42>>, <<97, 42>>, <<97, 98, 99>>>>
    /\ Len(calls) = 1
    /\ calls[1].op = "SearchValuesRange"
    /\ calls[1].limits = <<<<99>>, <<97>>>>

\* a SEARCH over three patterns, the second with no limits, ran a full scan
C12_WitnessUnbounded ==
    /\ pc = "done"
    /\ sargs.t.globs = <<<<97, 98, 42>>, <<42>>, <<98, 42>>>>
    /\ Len(calls) = 1
    /\ calls[1].op = "SearchValues"

\* the two commands of the clip composition scenario
ObjectClipby == <<"OBJECT", "{}", "CLIPBY", "BOUNDS", "0", "0", "1", "1">>
BoundsClipby == <<"BOUNDS", "0", "0", "1", "1", "CLIPBY", "BOUNDS", "0", "0", "1", "1">>
ClipbyRect == NewRect(Deg(0), Deg(0), Deg(1), Deg(1))

\* C13: INTERSECTS key OBJECT <geojson> CLIPBY BOUNDS a b c d fails with the
\* clip-incompatibility error of the object kind; INTERSECTS key BOUNDS a b c d
\* CLIPBY BOUNDS e f g h succeeds with the base rectangle clipped by the
\* CLIPBY rectangle as its target.
C13_ClipComposition ==
    (/\ pc # "start"
     /\ msg.cmd = "intersects"
     /\ msg.base.err = NoErr
     /\ ~msg.base.t.hasbuffer) =>
        /\ msg.args = ObjectClipby =>
              argsErr = errInvalidArgument("cannot clip with object")
        /\ msg.args = BoundsClipby =>
              /\ argsErr = NoErr
              /\ sargs.obj = Clip(RectOf("bounds", SubSeq(BoundsClipby, 2, 5)),
                                  ClipbyRect)

\* C13, amended: the OBJECT command fails with "cannot clip with object"
\* exactly when the base tokens request clipping (CLIP); without that request
\* it succeeds with the object clipped by the CLIPBY rectangle as its target.
\* The BOUNDS command succeeds with the base rectangle clipped by the CLIPBY
\* rectangle.  (No buffer requested.)
C13_ClipRequestDecides ==
    (/\ pc # "start"
     /\ msg.cmd = "intersects"
     /\ msg.base.err = NoErr
     /\ ~msg.base.t.hasbuffer) =>
        /\ msg.args = ObjectClipby =>
              IF msg.base.t.clip
              THEN argsErr = errInvalidArgument("cannot clip with object")
              ELSE /\ argsErr = NoErr
                   /\ sargs.obj = Clip([type |-> "object", json |-> "{}"],
                                       ClipbyRect)
        /\ msg.args = BoundsClipby =>
              /\ argsErr = NoErr
              /\ sargs.obj = Clip(RectOf("bounds", SubSeq(BoundsClipby, 2, 5)),
                                  ClipbyRect)

\* an INTERSECTS with a clip request and an OBJECT target has been refused
C13_Witness ==
    /\ pc = "done"
    /\ msg.cmd = "intersects"
    /\ msg.args = ObjectClipby
    /\ msg.base.err = NoErr
    /\ msg.base.t.clip
    /\ ~msg.base.t.hasbuffer
    /\ err = errInvalidArgument("cannot clip with object")

\* the number of tokens, kind tag included, that the base target of the
\* command takes: the optional radius of NEARBY POINT and the optional SCAN
\* clause of ROAM belong to the base target
BaseLen(cmd, args) ==
    CASE ToLower(args[1]) = "point" ->
            IF cmd = "nearby" /\ Len(args) > 3 /\ ToLower(args[4]) # "clipby"
            THEN 4 ELSE 3
      [] ToLower(args[1]) \in {"circle", "tile", "mvt", "roam"} ->
            IF /\ ToLower(args[1]) = "roam"
               /\ Len(args) >= 6
               /\ ToLower(args[5]) = "scan"
            THEN 6 ELSE 4
      [] ToLower(args[1]) \in {"object", "hash", "quadkey"} -> 2
      [] ToLower(args[1]) = "sector" -> 6
      [] ToLower(args[1]) = "bounds" -> 5
      [] ToLower(args[1]) = "get" -> 3
      [] OTHER -> 1

\* the resolution of the base target alone, with no buffer step
BaseAlone(m, cs) ==
    cmdSearchArgs([cols |-> cs], FALSE, m.cmd,
                  [m.base EXCEPT !.t.hasbuffer = FALSE],
                  SubSeq(m.args, 1, BaseLen(m.cmd, m.args)),
                  IF m.cmd = "nearby" THEN nearbyTypes
                  ELSE withinOrIntersectsTypes)

\* an error the claim does not name
SomeErr == Err("some error", "")

\* what a sequence of CLIPBY clauses makes of the target obj
RECURSIVE ClipTail(_, _)
ClipTailRect(obj, r) ==
    IF r.err # NoErr THEN [err |-> SomeErr, obj |-> obj]
    ELSE ClipTail(Clip(obj, r.grect), r.nvs)

ClipTail(obj, tail) ==
    IF Len(tail) = 0 THEN [err |-> NoErr, obj |-> obj]
    ELSE IF ToLower(tail[1]) # "clipby"
    THEN [err |-> errInvalidNumberOfArguments, obj |-> obj]
    ELSE IF ~HasTokens(tail, 2) THEN [err |-> SomeErr, obj |-> obj]
    ELSE IF ToLower(tail[2]) \notin {"bounds", "hash", "tile", "quadkey"}
    THEN [err |-> errInvalidArgument("cannot clipby " \o ToLower(tail[2])),
          obj |-> obj]
    ELSE ClipTailRect(obj, parseRectArea(ToLower(tail[2]), Drop(tail, 2)))

Unbuffered(lfs) == IF lfs.t.hasbuffer THEN lfs.obj.of ELSE lfs.obj

ClipTailHolds(exp) ==
    IF exp.err = SomeErr THEN argsErr # NoErr
    ELSE /\ argsErr = exp.err
         /\ exp.err = NoErr => Unbuffered(sargs) = exp.obj

ClipTailAfter(base, tail) ==
    base.err = NoErr => ClipTailHolds(ClipTail(base.lfs.obj, tail))

\* C14: once the base target of any kind has been resolved, the tokens that
\* remain are complete CLIPBY clauses: each bounds, hash, tile or quadkey
\* clause replaces the target by its clip with the rectangle, left to right;
\* another CLIPBY kind is the error "cannot clipby <kind>"; a token that is
\* not CLIPBY is an argument-count error.
C14_ClipbyTail ==
    (/\ pc \in {"newsw", "return"}
     /\ ~sw.created
     /\ msg.cmd \in Spatial
     /\ msg.base.err = NoErr
     /\ Len(msg.args) > 0
     /\ Len(msg.args) >= BaseLen(msg.cmd, msg.args)) =>
        ClipTailAfter(BaseAlone(msg, cols),
                      Drop(msg.args, BaseLen(msg.cmd, msg.args)))

\* the kinds a command recognises
TypesOf(cmd) == IF cmd = "nearby" THEN nearbyTypes ELSE withinOrIntersectsTypes

\* the roam fence of the scenario
RoamFence == <<"ROAM", "fleet", "truck-1", "500">>

\* C15: a kind tag is accepted, whatever its case, only if the command
\* recognises it or it is roam on a NEARBY in fence mode; any other tag is
\* the invalid-argument error naming the tag.  A NEARBY fence with
\* ROAM fleet truck-1 500 returns the live-fence signal with the roam
\* descriptor on, key "fleet", id "truck-1", not a pattern, 500 meters.
C15_KindAccepted ==
    (/\ pc # "start"
     /\ msg.cmd \in Spatial
     /\ msg.base.err = NoErr
     /\ Len(msg.args) > 0
     /\ msg.args[1] # ""
     /\ ~implicitBounds(msg.cmd, msg.base.t, msg.args[1])) =>
        /\ IF \/ ToLower(msg.args[1]) \in TypesOf(msg.cmd)
              \/ /\ ToLower(msg.args[1]) = "roam"
                 /\ msg.cmd = "nearby"
                 /\ msg.base.t.fence
           THEN argsErr # errInvalidArgument(msg.args[1])
           ELSE argsErr = errInvalidArgument(msg.args[1])
        /\ (msg.cmd = "nearby" /\ msg.base.t.fence /\ msg.args = RoamFence) =>
              /\ Returned
              /\ res = NOMessage
              /\ err = LiveFence(sargs)
              /\ sargs.roam = [on |-> TRUE, key |-> "fleet", id |-> "truck-1",
                               pattern |-> FALSE, meters |-> 500, scan |-> ""]

\* the roam fence of the scenario has gone live
C15_Witness ==
    /\ pc = "done"
    /\ msg.cmd = "nearby"
    /\ msg.args = RoamFence
    /\ err = LiveFence(sargs)
    /\ sargs.roam.on
    /\ sargs.roam.meters = 500

BadTile(vs) ==
    \/ Atoi(vs[1]).err \/ Atoi(vs[1]).v < 0
    \/ Atoi(vs[2]).err \/ Atoi(vs[2]).v < 0
    \/ Atoi(vs[3]).err \/ Atoi(vs[3]).v < 0 \/ Atoi(vs[3]).v > 23

\* every edge of r lies strictly outside the matching edge of the rectangle
\* tile
StrictlyContains(r, tile) ==
    /\ r.minX < tile.minX
    /\ r.minY < tile.minY
    /\ r.maxX > tile.maxX
    /\ r.maxY > tile.maxY

InLatLonDomain(r) ==
    /\ MinLongitude <= r.minX /\ r.minX <= MaxLongitude
    /\ MinLongitude <= r.maxX /\ r.maxX <= MaxLongitude
    /\ MinLatitude <= r.minY /\ r.minY <= MaxLatitude
    /\ MinLatitude <= r.maxY /\ r.maxY <= MaxLatitude

\* C17: the rectangle of an accepted MVT x y z strictly contains the tile
\* rectangle and has no edge outside the latitude and longitude domain; TILE
\* and MVT with a negative x, y or z, z > 23 or a token that is no integer are
\* refused with an invalid-argument error.
C17_MvtContainsTile ==
    (/\ pc # "start"
     /\ msg.cmd \in {"within", "intersects"}
     /\ msg.base.err = NoErr
     /\ Len(msg.args) > 0
     /\ ToLower(msg.args[1]) \in {"tile", "mvt"}
     /\ HasTokens(Tail(msg.args), 3)) =>
        IF BadTile(Tail(msg.args)) THEN argsErr.e = "invalid argument"
        ELSE (/\ ToLower(msg.args[1]) = "mvt"
              /\ argsErr = NoErr
              /\ ~sargs.t.hasbuffer) =>
                /\ StrictlyContains(BaseTarget(sargs.obj),
                                    RectOf("mvt", Tail(msg.args)))
                /\ InLatLonDomain(BaseTarget(sargs.obj))

\* C18: in a NEARBY that is not SPARSE and has a positive radius r, a
\* candidate farther than r is never pushed and ends the traversal; the
\* candidates delivered before it are pushed in the order the index
\* delivered them, with their distance when distance output was requested
\* and 0 otherwise.
C18_RadiusExcludes ==
    (/\ msg.cmd = "nearby"
     /\ Len(calls) = 1
     /\ calls[1].op = "Nearby"
     /\ sargs.obj.meters > 0) =>
        \A i \in 1..Len(log) :
            /\ log[i].id = sw.col[i].id
            /\ IF sw.col[i].dist > sargs.obj.meters
               THEN /\ ~log[i].pushed
                    /\ ~log[i].ret
                    /\ i = Len(log)
                    /\ pc # "traverse"
               ELSE /\ log[i].pushed
                    /\ log[i].params.obj = sw.col[i].id
                    /\ log[i].params.distOutput = sargs.t.distance
                    /\ log[i].params.dist =
                          IF sargs.t.distance THEN sw.col[i].dist ELSE 0

\* a NEARBY of radius 3 with distance output has returned the objects at
\* distances 0 and 3 and stopped at the object at distance 6
C18_Witness ==
    /\ pc = "done"
    /\ msg.cmd = "nearby"
    /\ res.kind = "reply"
    /\ sargs.t.sparse = 0
    /\ sargs.t.distance
    /\ sargs.obj.type = "circle"
    /\ sargs.obj.meters = 3
    /\ Len(log) = 3
    /\ ~log[3].pushed
    /\ Len(res.items) = 2
    /\ res.items[1].dist = 0
    /\ res.items[2].dist = 3

TileCoords(tk) == <<tk.tileX, tk.tileY, tk.tileZ>>

\* C19: a descriptor resolved without error carries the x, y, z of the tile
\* or mvt kind that gave its base target, whatever CLIPBY clauses follow, and
\* the "not a tile query" coordinates if its base target is of another kind.
C19_TileCoordsKept ==
    (/\ pc # "start"
     /\ msg.cmd \in Spatial
     /\ argsErr = NoErr
     /\ Len(msg.args) > 0) =>
        IF ToLower(msg.args[1]) \in {"tile", "mvt"}
        THEN TileCoords(sargs.t) =
                <<Atoi(msg.args[2]).v, Atoi(msg.args[3]).v, Atoi(msg.args[4]).v>>
        ELSE TileCoords(sargs.t) = TileCoords(ZeroTokens)

\* C20: a roam descriptor that resolution returns without error has a radius
\* of at least 0 meters, a key and an id that are not empty, and its pattern
\* flag set exactly when the id is a glob pattern; a roam clause with a
\* negative radius is refused.
C20_RoamWellFormed ==
    (/\ pc # "start"
     /\ msg.cmd \in Spatial
     /\ argsErr = NoErr
     /\ sargs.roam.on) =>
        /\ sargs.roam.meters >= 0
        /\ sargs.roam.key # ""
        /\ sargs.roam.id # ""
        /\ sargs.roam.pattern = IsGlob(sargs.roam.id)

\* C21: in a NEARBY that is not SPARSE, an explicit radius of 0 bounds the
\* result as any explicit radius does: no candidate at a distance greater
\* than 0 is pushed to the sink, where the same query with no radius token
\* pushes them.
C21_ZeroRadiusBounds ==
    (/\ msg.cmd = "nearby"
     /\ Len(calls) = 1
     /\ calls[1].op = "Nearby"
     /\ sargs.obj.meters = 0) =>
        \A i \in 1..Len(log) :
            log[i].pushed => sw.col[i].dist <= 0

====
